---- MODULE Spec2Model ----
(***************************************************************************)
(* Amazon Transactions CSV Export (src/amazon-transactions-to-csv.js).     *)
(*                                                                         *)
(* A JavaScript string is modelled as a sequence of one-character strings. *)
(* The pound and euro signs are the character atoms "pound" and "euro".    *)
(***************************************************************************)
EXTENDS Integers, Sequences, FiniteSets, TLC

(***************************************************************************)
(* Characters and small helpers                                            *)
(***************************************************************************)
UpperCase == <<"A","B","C","D","E","F","G","H","I","J","K","L","M",
    "N","O","P","Q","R","S","T","U","V","W","X","Y","Z">>

LowerCase == <<"a","b","c","d","e","f","g","h","i","j","k","l","m",
    "n","o","p","q","r","s","t","u","v","w","x","y","z">>

DigitChars == <<"0","1","2","3","4","5","6","7","8","9">>

Range(s) == {s[i] : i \in DOMAIN s}

\* \d
IsDigit(c) == c \in Range(DigitChars)

\* [A-Za-z]
IsLetter(c) == c \in Range(UpperCase) \cup Range(LowerCase)

\* \s
IsSpace(c) == c \in {" ", "\t", "\n"}

\* comparison under the regular expressions' i flag
ToLower(c) ==
    IF c \in Range(UpperCase)
    THEN LowerCase[CHOOSE i \in DOMAIN UpperCase : UpperCase[i] = c]
    ELSE c

LowerStr(s) == [i \in DOMAIN s |-> ToLower(s[i])]

MinOf(S) == CHOOSE x \in S : \A y \in S : x <= y

MaxOf(S) == CHOOSE x \in S : \A y \in S : x >= y

\* the elements of s outside the set Drop, in order
RECURSIVE Without(_, _)
Without(s, Drop) ==
    IF Len(s) = 0 THEN << >>
    ELSE (IF Head(s) \in Drop THEN << >> ELSE <<Head(s)>>) \o Without(Tail(s), Drop)

\* the strings of strs longer than n, in order
RECURSIVE LongerThan(_, _)
LongerThan(strs, n) ==
    IF Len(strs) = 0 THEN << >>
    ELSE (IF Len(Head(strs)) > n THEN <<Head(strs)>> ELSE << >>)
         \o LongerThan(Tail(strs), n)

\* [...new Set(s)]: first occurrences, in order
RECURSIVE UniqueFrom(_, _)
UniqueFrom(s, i) ==
    IF i > Len(s) THEN << >>
    ELSE (IF \E j \in 1..(i - 1) : s[j] = s[i] THEN << >> ELSE <<s[i]>>)
         \o UniqueFrom(s, i + 1)

Unique(s) == UniqueFrom(s, 1)

\* the element of a one-element set: Only({e(v) : v \in {x}}) is e(x) with x
\* evaluated once
Only(S) == CHOOSE x \in S : TRUE

\* strs.join(sep)
RECURSIVE JoinFrom(_, _, _)
JoinFrom(strs, i, sep) ==
    IF i > Len(strs) THEN << >>
    ELSE IF i = Len(strs) THEN strs[i]
    ELSE strs[i] \o sep \o JoinFrom(strs, i + 1, sep)

Join(strs, sep) == Only({JoinFrom(s, 1, sep) : s \in {strs}})

\* String(n) for a natural number n
RECURSIVE NatToStr(_)
NatToStr(n) ==
    IF n < 10 THEN <<DigitChars[n + 1]>>
    ELSE NatToStr(n \div 10) \o <<DigitChars[(n % 10) + 1]>>

DigitVal(c) == (CHOOSE i \in DOMAIN DigitChars : DigitChars[i] = c) - 1

\* Number(s) for a string s of decimal digits
RECURSIVE StrToNat(_)
StrToNat(s) ==
    IF Len(s) = 0 THEN 0
    ELSE 10 * StrToNat(SubSeq(s, 1, Len(s) - 1)) + DigitVal(s[Len(s)])

\* padStart left out
PadStart2None(s) == s

\* s.padStart(2, '0')
PadStart2(s) == IF Len(s) < 2 THEN <<"0">> \o s ELSE s

(***************************************************************************)
(* Text normalizer and parsers                                             *)
(***************************************************************************)
MONTHS ==
    [m \in {<<"J","a","n">>, <<"F","e","b">>, <<"M","a","r">>, <<"A","p","r">>,
            <<"M","a","y">>, <<"J","u","n">>, <<"J","u","l">>, <<"A","u","g">>,
            <<"S","e","p">>, <<"O","c","t">>, <<"N","o","v">>, <<"D","e","c">>} |->
        CASE m = <<"J","a","n">> -> <<"0","1">>
          [] m = <<"F","e","b">> -> <<"0","2">>
          [] m = <<"M","a","r">> -> <<"0","3">>
          [] m = <<"A","p","r">> -> <<"0","4">>
          [] m = <<"M","a","y">> -> <<"0","5">>
          [] m = <<"J","u","n">> -> <<"0","6">>
          [] m = <<"J","u","l">> -> <<"0","7">>
          [] m = <<"A","u","g">> -> <<"0","8">>
          [] m = <<"S","e","p">> -> <<"0","9">>
          [] m = <<"O","c","t">> -> <<"1","0">>
          [] m = <<"N","o","v">> -> <<"1","1">>
          [] m = <<"D","e","c">> -> <<"1","2">>]

\* (value || '').replace(/\s+/g, ' ').trim(): every run of whitespace becomes
\* one space, and the runs at both ends are dropped
RECURSIVE normalizeFrom(_, _)
normalizeFrom(s, i) ==
    IF i > Len(s) THEN << >>
    ELSE IF ~IsSpace(s[i]) THEN <<s[i]>> \o normalizeFrom(s, i + 1)
    ELSE IF /\ i > 1
            /\ ~IsSpace(s[i - 1])
            /\ \E j \in (i + 1)..Len(s) : ~IsSpace(s[j])
         THEN <<" ">> \o normalizeFrom(s, i + 1)
         ELSE normalizeFrom(s, i + 1)

normalizeSpace(value) == normalizeFrom(value, 1)

\* the first position >= i of t that holds no whitespace (Len(t) + 1 if none)
SkipSpace(t, i) ==
    MinOf({j \in i..(Len(t) + 1) : j > Len(t) \/ ~IsSpace(t[j])})

\* the last position of the run of characters of the set Class that starts
\* at i (i - 1 when t[i] is not in Class)
RunEnd(t, i, Class) ==
    MaxOf({j \in (i - 1)..Len(t) : \A k \in i..j : t[k] \in Class})

\* /^(\d{1,2})\s+([A-Za-z]{3})\s+(\d{4})$/ : the set of <<day, month, year>>
\* captures (empty when the text does not match, else one element)
DateMatch(text) ==
    {<<SubSeq(text, 1, d), SubSeq(text, d + w1 + 1, d + w1 + 3),
       SubSeq(text, d + w1 + 3 + w2 + 1, Len(text))>> :
        <<d, w1, w2>> \in
          {x \in (1..2) \X (1..Len(text)) \X (1..Len(text)) :
              /\ Len(text) = x[1] + x[2] + 3 + x[3] + 4
              /\ \A k \in 1..x[1] : IsDigit(text[k])
              /\ \A k \in (x[1] + 1)..(x[1] + x[2]) : IsSpace(text[k])
              /\ \A k \in (x[1] + x[2] + 1)..(x[1] + x[2] + 3) : IsLetter(text[k])
              /\ \A k \in (x[1] + x[2] + 4)..(x[1] + x[2] + 3 + x[3]) : IsSpace(text[k])
              /\ \A k \in (x[1] + x[2] + x[3] + 4)..Len(text) : IsDigit(text[k])}}

parseDateToISO(raw) ==
    LET text == normalizeSpace(raw)
        match == DateMatch(text)
    IN  IF match = {} THEN << >>
        ELSE LET m == CHOOSE x \in match : TRUE
                 day == PadStart2(NatToStr(StrToNat(m[1])))
                 year == m[3]
             IN  IF m[2] \in DOMAIN MONTHS
                 THEN year \o <<"-">> \o MONTHS[m[2]] \o <<"-">> \o day
                 ELSE << >>

\* (?:[$£€]|USD|GBP|EUR) under the i flag: the length of the currency marker
\* at position i of t, 0 when there is none
CurrencyLen(t, i) ==
    IF i <= Len(t) /\ t[i] \in {"$", "pound", "euro"} THEN 1
    ELSE IF /\ i + 2 <= Len(t)
            /\ LowerStr(SubSeq(t, i, i + 2)) \in
                 {<<"u","s","d">>, <<"g","b","p">>, <<"e","u","r">>}
         THEN 3
         ELSE 0

\* [+-]?\s*(currency)\s* tried at position i: the position of the digit that
\* must follow, or 0 when the pattern does not match at i.  needCurrency is
\* TRUE for AMOUNT_REGEX and FALSE for the pattern of parseAmountValue.
AmountDigitAt(t, i, needCurrency) ==
    LET j1 == IF t[i] \in {"+", "-"} THEN i + 1 ELSE i
        j2 == SkipSpace(t, j1)
        c == CurrencyLen(t, j2)
        j4 == SkipSpace(t, j2 + c)
    IN  IF /\ j4 <= Len(t)
           /\ IsDigit(t[j4])
           /\ (needCurrency => c > 0)
        THEN j4
        ELSE 0

\* \d[\d,]* alone: the fraction (?:\.\d{2})? left out of the pattern
AmountDigitsNoFraction(t, j) ==
    SubSeq(t, j, RunEnd(t, j + 1, Range(DigitChars) \cup {","}))

\* \d[\d,]*(?:\.\d{2})? starting at the digit at position j
AmountDigits(t, j) ==
    LET k == RunEnd(t, j + 1, Range(DigitChars) \cup {","})
        frac == /\ k + 3 <= Len(t)
                /\ t[k + 1] = "."
                /\ IsDigit(t[k + 2])
                /\ IsDigit(t[k + 3])
    IN  SubSeq(t, j, IF frac THEN k + 3 ELSE k)

\* AMOUNT_REGEX.test(t)
AmountTest(t) == \E i \in 1..Len(t) : AmountDigitAt(t, i, TRUE) > 0

parseAmountValue(rawText) ==
    LET text == normalizeSpace(rawText)
        starts == {i \in 1..Len(text) : AmountDigitAt(text, i, FALSE) > 0}
    IN  IF starts = {} THEN << >>
        ELSE LET i == MinOf(starts)
                 sign == IF text[i] \in {"+", "-"} THEN <<text[i]>> ELSE << >>
                 value == Without(AmountDigits(text, AmountDigitAt(text, i, FALSE)),
                                  {","})
             IN  sign \o value

\* Order\s*# under the i flag, tried at position i: the position after the
\* "#", or 0 when the pattern does not match at i
OrderHashAt(t, i) ==
    IF /\ i + 4 <= Len(t)
       /\ LowerStr(SubSeq(t, i, i + 4)) = <<"o","r","d","e","r">>
       /\ SkipSpace(t, i + 5) <= Len(t)
       /\ t[SkipSpace(t, i + 5)] = "#"
    THEN SkipSpace(t, i + 5) + 1
    ELSE 0

\* /Order\s*#/i.test(t)
OrderTest(t) == \E i \in 1..Len(t) : OrderHashAt(t, i) > 0

\* [A-Za-z0-9-]
OrderChars == Range(UpperCase) \cup Range(LowerCase) \cup Range(DigitChars) \cup {"-"}

\* text.match(/Order\s*#\s*([A-Za-z0-9-]+)/i): capture 1 of the leftmost
\* match, or '' when there is no match
OrderCapture(t) ==
    LET TokenAt(i) == SkipSpace(t, OrderHashAt(t, i))
        starts == {i \in 1..Len(t) :
                      /\ OrderHashAt(t, i) > 0
                      /\ TokenAt(i) <= Len(t)
                      /\ t[TokenAt(i)] \in OrderChars}
    IN  IF starts = {} THEN << >>
        ELSE LET k == TokenAt(MinOf(starts))
             IN  SubSeq(t, k, RunEnd(t, k, OrderChars))

(***************************************************************************)
(* Tabular serializer                                                      *)
(***************************************************************************)
\* str.replace(/"/g, '""') left out: the double quotes stay single
DoubleQuotesKept(s) == s

\* str.replace(/"/g, '""')
RECURSIVE DoubleQuotes(_)
DoubleQuotes(s) ==
    IF Len(s) = 0 THEN << >>
    ELSE (IF Head(s) = "\"" THEN <<"\"", "\"">> ELSE <<Head(s)>>)
         \o DoubleQuotes(Tail(s))

\* csvEscape with the newline left out of its test
csvEscapeNoNewline(value) ==
    IF \E i \in DOMAIN value : value[i] \in {"\"", ","}
    THEN <<"\"">> \o DoubleQuotes(value) \o <<"\"">>
    ELSE value

csvEscape(value) ==
    IF \E i \in DOMAIN value : value[i] \in {"\"", ",", "\n"}
    THEN <<"\"">> \o DoubleQuotes(value) \o <<"\"">>
    ELSE value

\* maxProducts taken from the first row alone
csvMaxProductsFirstRow(rows) ==
    IF Len(rows) = 0 THEN 0 ELSE Len(rows[1].products)

csvMaxProducts(rows) ==
    IF Len(rows) = 0 THEN 0 ELSE MaxOf({Len(rows[i].products) : i \in DOMAIN rows} \cup {0})

\* the header array of buildCsv, before join(',')
csvHeader(rows) ==
    << <<"d","a","t","e">>,
       <<"c","a","r","d","_","d","e","t","a","i","l","s">>,
       <<"o","r","d","e","r","_","n","u","m","b","e","r">>,
       <<"t","o","t","a","l","_","a","m","o","u","n","t">> >>
    \o [i \in 1..csvMaxProducts(rows) |->
          <<"p","r","o","d","u","c","t","_">> \o NatToStr(i)]

\* the field array of one row of buildCsv, before map(csvEscape).join(',')
csvRow(row, maxProducts) ==
    <<row.date, row.cardDetails, row.orderNumber, row.totalAmount>>
    \o [i \in 1..maxProducts |->
          IF i <= Len(row.products) THEN row.products[i] ELSE << >>]

\* the lines array of buildCsv, before join('\n')
csvLines(rows) ==
    <<Join(csvHeader(rows), <<",">>)>>
    \o [r \in DOMAIN rows |->
          Only({Join([i \in DOMAIN fields |-> csvEscape(fields[i])], <<",">>) :
                  fields \in {csvRow(rows[r], csvMaxProducts(rows))}})]

buildCsv(rows) == Join(csvLines(rows), <<"\n">>)

(***************************************************************************)
(* The document: transaction links, order-detail pages, scroll containers  *)
(***************************************************************************)
\* One element below a transaction link: its tag, its data-testid ("" when
\* it has none) and its textContent.
El(tag, testid, text) == [tag |-> tag, testid |-> testid, text |-> text]

\* A transaction link: `outer` lists all its descendant elements in document
\* order; when it holds a transaction-link-content-wrapper, `wrapped` is TRUE
\* and `inner` lists the wrapper's descendants.
Link(wrapped, outer, inner) == [wrapped |-> wrapped, outer |-> outer, inner |-> inner]

TextDate == <<"5"," ","J","a","n"," ","2","0","2","4">>

TextDatePadded == <<" ","0","5"," "," ","J","a","n","\n","2","0","2","4">>

TextOrderA1 == <<"O","r","d","e","r"," ","#","A","1">>

TextOrderB2 == <<"o","r","d","e","r","#"," ","B","-","2">>

CardSpans ==
    << El("span", "method-details-name", <<"V","i","s","a">>),
       El("span", "method-details-prefix", <<" ","*","*">>),
       El("span", "method-details-number", <<"4","2">>) >>

LinkA1 ==
    Link(FALSE,
         <<El("span", "text", TextDate)>> \o CardSpans
         \o <<El("span", "text", TextOrderA1), El("span", "text", <<"$","1","0",".","0","0">>)>>,
         << >>)

\* the same order with another amount (a refund line)
LinkA1Refund ==
    Link(FALSE,
         <<El("span", "text", TextDate)>> \o CardSpans
         \o <<El("span", "text", TextOrderA1), El("span", "text", <<"-","$","5",".","0","0">>)>>,
         << >>)

\* the entry of LinkA1 rendered again in another node, with other whitespace
\* and inside a content wrapper
LinkA1Again ==
    Link(TRUE,
         <<El("p", "", <<"x">>), El("div", "transaction-link-content-wrapper", << >>)>>,
         <<El("div", "text", TextDatePadded)>> \o CardSpans
         \o <<El("div", "", TextOrderA1), El("p", "text", <<"$"," ","1","0",".","0","0">>)>>)

LinkB2 ==
    Link(FALSE,
         <<El("span", "text", TextDate)>> \o CardSpans
         \o <<El("span", "text", TextOrderB2), El("span", "text", <<"pound","1",",","2","0","0">>)>>,
         << >>)

\* an entry with no order number
LinkNoOrder ==
    Link(FALSE,
         <<El("span", "text", TextDate)>> \o CardSpans
         \o <<El("span", "text", <<"E","U","R"," ","3",".","5","0">>)>>,
         << >>)

\* a list entry that is no transaction (a header or an advertisement)
LinkAd == Link(FALSE, <<El("span", "text", <<"A","d","s">>)>>, << >>)

Links == {LinkA1, LinkA1Refund, LinkA1Again, LinkB2, LinkNoOrder, LinkAd}

\* the number of transaction links the document renders at one time
MaxRendered == 2

\* document.querySelectorAll('[data-testid="transaction-link"]'): what the
\* document can render when it is queried, each element once
Renderings ==
    {links \in UNION {[1..n -> Links] : n \in 0..MaxRendered} :
        \A i, j \in DOMAIN links : i # j => links[i] # links[j]}

\* The body of an order-details page: the textContent of the elements that
\* match '[data-component="itemTitle"] a.a-link-normal' (primary) and
\* 'a.a-link-normal[href*="/dp/"]' (fallback), in document order.
Html(primary, fallback) == [primary |-> primary, fallback |-> fallback]

HtmlTitles ==
    Html(<< <<" ","W","i","d">>, <<"W","i","d">>, <<" ">>, <<"G","a">> >>,
         << <<"G","a","d">> >>)

HtmlLinksOnly == Html(<< >>, << <<"G","a","d">>, <<"o","k">>, <<"G","a","d"," ">> >>)

HtmlNoItems == Html(<< >>, << >>)

Htmls == {HtmlTitles, HtmlLinksOnly, HtmlNoItems}

\* One ancestor of the seed link, as getScrollableContainer reads it.
Box(overflowY, scrollHeight, clientHeight) ==
    [overflowY |-> overflowY, scrollHeight |-> scrollHeight, clientHeight |-> clientHeight]

\* The chains from the seed link (first) up to, not including, document.body.
\* The empty chain is a document with no transaction link: the walk starts
\* at document.body.
Chains ==
    { << >>,
      <<Box("visible", 40, 10), Box("auto", 18, 10)>>,
      <<Box("visible", 40, 10), Box("scroll", 19, 10), Box("auto", 90, 10)>> }

(***************************************************************************)
(* Record extractor                                                        *)
(***************************************************************************)
\* row.querySelector(sel)?.textContent for the selectors that name one
\* data-testid: the text of the first such element, '' when there is none
TestidText(els, testid) ==
    LET hits == {i \in DOMAIN els : els[i].testid = testid}
    IN  IF hits = {} THEN << >> ELSE els[MinOf(hits)].text

\* row.querySelector('span[data-testid="text"], div[data-testid="text"]')
FirstText(els) ==
    LET hits == {i \in DOMAIN els : els[i].testid = "text" /\ els[i].tag \in {"span", "div"}}
    IN  IF hits = {} THEN << >> ELSE els[MinOf(hits)].text

\* row.querySelectorAll('[data-testid="text"], span, div')
Candidates(els) == {i \in DOMAIN els : els[i].testid = "text" \/ els[i].tag \in {"span", "div"}}

\* lines 141-143 left out: a record is returned for every link
extractTransactionNeverNull(linkEl) ==
    LET row == IF linkEl.wrapped THEN linkEl.inner ELSE linkEl.outer
        orderEls == {i \in Candidates(row) : OrderTest(row[i].text)}
        orderText == IF orderEls = {} THEN << >>
                     ELSE normalizeSpace(row[MinOf(orderEls)].text)
        amountEls == {i \in Candidates(row) : AmountTest(normalizeSpace(row[i].text))}
        amountRaw == IF amountEls = {} THEN << >>
                     ELSE normalizeSpace(row[MinOf(amountEls)].text)
    IN  <<[date |-> parseDateToISO(FirstText(row)),
           cardDetails |-> normalizeSpace(TestidText(row, "method-details-name"))
                           \o normalizeSpace(TestidText(row, "method-details-prefix"))
                           \o normalizeSpace(TestidText(row, "method-details-number")),
           orderNumber |-> OrderCapture(orderText),
           totalAmount |-> parseAmountValue(amountRaw),
           products |-> << >>]>>

\* no record is the empty sequence; a record is a sequence of one record
extractTransaction(linkEl) ==
    LET row == IF linkEl.wrapped THEN linkEl.inner ELSE linkEl.outer
        date == parseDateToISO(FirstText(row))
        cardName == normalizeSpace(TestidText(row, "method-details-name"))
        cardPrefix == normalizeSpace(TestidText(row, "method-details-prefix"))
        cardNumber == normalizeSpace(TestidText(row, "method-details-number"))
        cardDetails == cardName \o cardPrefix \o cardNumber
        orderEls == {i \in Candidates(row) : OrderTest(row[i].text)}
        orderText == IF orderEls = {} THEN << >>
                     ELSE normalizeSpace(row[MinOf(orderEls)].text)
        orderNumber == OrderCapture(orderText)
        amountEls == {i \in Candidates(row) : AmountTest(normalizeSpace(row[i].text))}
        amountRaw == IF amountEls = {} THEN << >>
                     ELSE normalizeSpace(row[MinOf(amountEls)].text)
        totalAmount == parseAmountValue(amountRaw)
    IN  IF date = << >> /\ orderNumber = << >> /\ totalAmount = << >> /\ cardDetails = << >>
        THEN << >>
        ELSE <<[date |-> date, cardDetails |-> cardDetails, orderNumber |-> orderNumber,
                totalAmount |-> totalAmount, products |-> << >>]>>

\* extractTransaction(link) for each link the document can render
Extracted == [l \in Links |-> extractTransaction(l)]

(***************************************************************************)
(* Scroll container, order-detail parsing                                  *)
(***************************************************************************)
\* 0 stands for document.scrollingElement || document.documentElement;
\* i > 0 for the i-th element of the chain
getScrollableContainer(chain) ==
    LET canScroll == {i \in DOMAIN chain :
                         /\ chain[i].overflowY \in {"auto", "scroll"}
                         /\ chain[i].scrollHeight > chain[i].clientHeight + 8}
    IN  IF canScroll = {} THEN 0 ELSE MinOf(canScroll)

\* .map((el) => normalizeSpace(el.textContent))
NormalizeAll(texts) == [i \in DOMAIN texts |-> normalizeSpace(texts[i])]

parseProductsFromOrderHtml(htmlText) ==
    LET primary == LongerThan(NormalizeAll(htmlText.primary), 0)
        fallback == LongerThan(NormalizeAll(htmlText.fallback), 2)
    IN  IF Len(primary) > 0 THEN Unique(primary) ELSE Unique(fallback)

\* parseProductsFromOrderHtml(html) for each body the network can return
Parsed == [h \in Htmls |-> parseProductsFromOrderHtml(h)]

(***************************************************************************)
(* Constants of the script                                                 *)
(***************************************************************************)
\* 200 in the source; scaled down so that a run can reach it
MAX_TRANSACTIONS == 3

\* 8 in the source; scaled down with MAX_TRANSACTIONS
STALL_LIMIT == 2

WAIT_MS == 900

\* sleep(150) after each order key
RATE_MS == 150

\* sleep(1600) while 'No transactions found' is shown
EMPTY_MS == 1600

\* sleep(1800) while 'Downloaded n' or 'Export failed' is shown
SHOWN_MS == 1800

\* how many invocations of the click handler can be suspended at one time
MaxHandlers == 2

Slots == 1..MaxHandlers

(***************************************************************************)
(* State                                                                   *)
(***************************************************************************)
VARIABLES
    running,    \* button.dataset.running === '1'
    label,      \* button.textContent
    run,        \* run[r]: the locals of the r-th suspended click handler
    net,        \* the requests the network collaborator has not answered yet
    timers,     \* the setTimeout timers of sleep() that have not fired yet
    lastEvent,  \* the kind of the event the event loop dispatched last
    polls,      \* what the document returned at the queries of the running
                \* collection, when that is being recorded
    rowsIn,     \* buildCsv alone: its argument
    csvOut,     \* buildCsv alone: its header, row fields and text
    arg,        \* a pure function alone: its argument
    result      \* a pure function alone: << >>, or <<what it returned>>

vars == <<running, label, run, net, timers, lastEvent, polls, rowsIn, csvOut, arg, result>>

\* button.textContent: a fixed text and up to two numbers interpolated in it
Label(text, a, b) == [text |-> text, a |-> a, b |-> b]

\* `Export ${MAX_TRANSACTIONS} Txns CSV`
IdleLabel == Label("Export # Txns CSV", MAX_TRANSACTIONS, 0)

\* The locals of one invocation of the click handler and of the functions it
\* awaits.  The fields from `noNew` on record what the invocation has done:
\*   noNew      latest consecutive iterations that accepted no record
\*   dupSeen    some link was skipped because an earlier iteration had put
\*              its key in the seen set
\*   issued     the order numbers a detail fetch was issued for, in order
\*   failed     the order numbers whose fetch ended in the catch clause
\*   thrown     what threw the exception the handler's catch clause caught
\*   delivered  the files handed to the browser by downloadCsv
IdleFrame ==
    [pc |-> "none", originalText |-> Label("", 0, 0), scroller |-> 0,
     records |-> << >>, seen |-> {}, stallCount |-> 0, lastCount |-> 0,
     rows |-> << >>, uniqueOrders |-> << >>, cache |-> << >>, done |-> 0,
     enrichedRows |-> << >>,
     noNew |-> 0, dupSeen |-> FALSE,
     issued |-> << >>, failed |-> {}, thrown |-> "none", delivered |-> << >>]

\* What one handler step reads and writes: its frame and the shared state.
World(r) ==
    [f |-> run[r], label |-> label, running |-> running, timers |-> timers, net |-> net,
     polls |-> polls]

Timer(r, ms) == [slot |-> r, ms |-> ms]

Request(r, kind, order) == [slot |-> r, kind |-> kind, order |-> order]

\* await sleep(ms): the handler is suspended at pc until the timer fires
Sleep(w, r, ms, pc) ==
    [w EXCEPT !.timers = @ \cup {Timer(r, ms)}, !.f.pc = pc]

\* The entry counts of the document at the queries of the running collection:
\*   on    whether they are recorded at all
\*   prev  how many links the previous query returned
\*   flat  the latest consecutive queries that returned no more links than
\*         the query before, counted up to STALL_LIMIT
NoPolls(on) == [on |-> on, prev |-> 0, flat |-> 0]

\* document.querySelectorAll(...) returned n links
Polled(p, n) ==
    IF ~p.on THEN p
    ELSE [p EXCEPT !.prev = n,
                   !.flat = IF n > p.prev THEN 0
                            ELSE IF p.flat < STALL_LIMIT THEN p.flat + 1
                            ELSE STALL_LIMIT]

(***************************************************************************)
(* Click handler: catch, finally, serialization and delivery               *)
(***************************************************************************)
\* catch (error) { ... 'Export failed'; await sleep(1800); }
Catch(w, r, cause) ==
    Sleep([w EXCEPT !.label = Label("Export failed", 0, 0), !.f.thrown = cause],
          r, SHOWN_MS, "failSleep")

\* the finally clause without `button.textContent = originalText`
FinallyKeepsLabel(w) ==
    Only({[v EXCEPT !.running = FALSE, !.f = IdleFrame] : v \in {w}})

\* finally { button.textContent = originalText; delete button.dataset.running; }
Finally(w) ==
    Only({[v EXCEPT !.label = v.f.originalText, !.running = FALSE, !.f = IdleFrame] :
            v \in {w}})

\* downloadCsv(csvText, rowCount), link.click() reached: the browser is handed
\* the file
downloadCsv(w, csvText, rowCount) ==
    [w EXCEPT !.f.delivered = Append(@, [rowCount |-> rowCount, text |-> csvText])]

\* Serialize with a downloadCsv that throws after link.click()
SerializeThrowsAfterClick(w, r, throws) ==
    Only({IF throws = "buildCsv" THEN Catch(v, r, "buildCsv")
          ELSE IF throws = "downloadCsv"
               THEN Catch(downloadCsv(v, buildCsv(v.f.enrichedRows), Len(v.f.enrichedRows)),
                          r, "downloadCsv")
          ELSE Sleep([downloadCsv(v, buildCsv(v.f.enrichedRows), Len(v.f.enrichedRows))
                        EXCEPT !.label = Label("Downloaded #", Len(v.f.enrichedRows), 0)],
                     r, SHOWN_MS, "doneSleep") :
            v \in {w}})

\* buildCsv, downloadCsv, 'Downloaded n', sleep(1800).  `throws` says which of
\* the two calls throws, if any: buildCsv, or downloadCsv before link.click()
\* (what follows link.click() in downloadCsv does not throw).
Serialize(w, r, throws) ==
    Only({IF throws = "buildCsv" THEN Catch(v, r, "buildCsv")
          ELSE IF throws = "downloadCsv" THEN Catch(v, r, "downloadCsv")
          ELSE Sleep([downloadCsv(v, buildCsv(v.f.enrichedRows), Len(v.f.enrichedRows))
                        EXCEPT !.label = Label("Downloaded #", Len(v.f.enrichedRows), 0)],
                     r, SHOWN_MS, "doneSleep") :
            v \in {w}})

(***************************************************************************)
(* Order detail enricher                                                   *)
(***************************************************************************)
\* rows.map((row) => row.orderNumber).filter(Boolean) with the Set left out
uniqueOrdersOfNoSet(rows) ==
    LongerThan([i \in DOMAIN rows |-> rows[i].orderNumber], 0)

\* [...new Set(rows.map((row) => row.orderNumber).filter(Boolean))]
uniqueOrdersOf(rows) ==
    Unique(LongerThan([i \in DOMAIN rows |-> rows[i].orderNumber], 0))

\* the rows with no order number left out of the result
enrichRowsDropsUnordered(rows, cache) ==
    SelectSeq([i \in DOMAIN rows |->
                  [rows[i] EXCEPT !.products =
                      IF rows[i].orderNumber \in DOMAIN cache
                      THEN cache[rows[i].orderNumber] ELSE << >>]],
              LAMBDA row : row.orderNumber # << >>)

\* the spread `...row` left out: the result rows carry the products only
enrichRowsNoSpread(rows, cache) ==
    [i \in DOMAIN rows |->
        [date |-> << >>, cardDetails |-> << >>, orderNumber |-> << >>,
         totalAmount |-> << >>,
         products |-> IF rows[i].orderNumber \in DOMAIN cache
                      THEN cache[rows[i].orderNumber] ELSE << >>]]

\* rows.map((row) => ({...row, products: cache.get(row.orderNumber) || []}))
enrichRows(rows, cache) ==
    [i \in DOMAIN rows |->
        [rows[i] EXCEPT !.products =
            IF rows[i].orderNumber \in DOMAIN cache THEN cache[rows[i].orderNumber]
            ELSE << >>]]

\* cache.set(orderNumber, products)
cacheSet(cache, orderNumber, products) ==
    [k \in DOMAIN cache \cup {orderNumber} |->
        IF k = orderNumber THEN products ELSE cache[k]]

\* done += 1; onProgress(done, uniqueOrders.length); await sleep(150);
enrichAdvance(w, r) ==
    Only({Sleep([v EXCEPT !.f.done = @ + 1,
                          !.label = Label("Loading order items... #/#", v.f.done + 1,
                                          Len(v.f.uniqueOrders))],
                r, RATE_MS, "rateSleep") :
            v \in {w}})

\* the try block completed: cache.set(orderNumber, products), then the rest
\* of the loop body
enrichResolved(w, r, orderNumber, products) ==
    enrichAdvance([w EXCEPT !.f.cache = cacheSet(@, orderNumber, products)], r)

\* fetch(url, ...): the request goes out and the handler waits for it
issueFetch(w, r, orderNumber) ==
    [w EXCEPT !.net = @ \cup {Request(r, "fetch", orderNumber)},
              !.f.issued = Append(@, orderNumber),
              !.f.pc = "fetch"]

\* the loop head with its bound off by one: what follows the loop runs while
\* one order number is still to be fetched
enrichLoopLeavesLast(w, r, throws) ==
    Only({IF v.f.done + 1 < Len(v.f.uniqueOrders)
          THEN IF v.f.uniqueOrders[v.f.done + 1] = << >>
               THEN enrichResolved(v, r, << >>, << >>)
               ELSE issueFetch(v, r, v.f.uniqueOrders[v.f.done + 1])
          ELSE Serialize([v EXCEPT !.f.enrichedRows = enrichRows(v.f.rows, v.f.cache)],
                         r, throws) :
            v \in {w}})

\* The head of `for (const orderNumber of uniqueOrders)`, and what follows the
\* loop up to the next suspension.  fetchOrderProducts returns [] at once for
\* an empty order number.
enrichLoop(w, r, throws) ==
    Only({IF v.f.done < Len(v.f.uniqueOrders)
          THEN IF v.f.uniqueOrders[v.f.done + 1] = << >>
               THEN enrichResolved(v, r, << >>, << >>)
               ELSE issueFetch(v, r, v.f.uniqueOrders[v.f.done + 1])
          ELSE Serialize([v EXCEPT !.f.enrichedRows = enrichRows(v.f.rows, v.f.cache)],
                         r, throws) :
            v \in {w}})

\* the loop body without its try/catch: the exception reaches the click
\* handler's catch clause
enrichCaughtRethrows(w, r, orderNumber) ==
    Catch([w EXCEPT !.f.failed = @ \cup {orderNumber}], r, "fetch")

\* `await sleep(150)` moved into the try block: no delay after a failed fetch
enrichCaughtNoDelay(w, r, orderNumber) ==
    enrichLoop([w EXCEPT !.f.cache = cacheSet(@, orderNumber, << >>),
                         !.f.failed = @ \cup {orderNumber},
                         !.f.done = @ + 1,
                         !.label = Label("Loading order items... #/#", w.f.done + 1,
                                         Len(w.f.uniqueOrders))],
               r, "none")

\* catch (error) { console.error(...); cache.set(orderNumber, []); } and the
\* rest of the loop body
enrichCaught(w, r, orderNumber) ==
    enrichAdvance([w EXCEPT !.f.cache = cacheSet(@, orderNumber, << >>),
                            !.f.failed = @ \cup {orderNumber}], r)

\* enrichTransactionsWithProducts(rows, onProgress) up to its first suspension
enrichTransactionsWithProducts(w, r, throws) ==
    Only({enrichLoop([v EXCEPT !.f.cache = << >>,
                               !.f.uniqueOrders = uniqueOrdersOf(v.f.rows),
                               !.f.done = 0],
                     r, throws) :
            v \in {w}})

(***************************************************************************)
(* Scroll-driven collector                                                 *)
(***************************************************************************)
\* `${tx.date}|${tx.cardDetails}|${tx.orderNumber}|${tx.totalAmount}`
dedupeKey(tx) ==
    tx.date \o <<"|">> \o tx.cardDetails \o <<"|">> \o tx.orderNumber
    \o <<"|">> \o tx.totalAmount

\* seen.has(key), always false: the check of line 233 left out
seenHasNever(seen, key) == FALSE

\* seen.has(key)
seenHas(seen, key) == key \in seen

\* the break of line 239 left out: the for loop goes on past maxTransactions
RECURSIVE acceptLinksNoBreak(_, _, _, _, _, _, _)
acceptLinksNoBreak(records, seen, old, dup, links, i, maxTransactions) ==
    IF i > Len(links) THEN [records |-> records, seen |-> seen, dup |-> dup]
    ELSE LET tx == Extracted[links[i]]
         IN  IF tx = << >>
             THEN acceptLinksNoBreak(records, seen, old, dup, links, i + 1,
                                     maxTransactions)
             ELSE IF seenHas(seen, dedupeKey(tx[1]))
                  THEN acceptLinksNoBreak(records, seen, old,
                                          dup \/ dedupeKey(tx[1]) \in old,
                                          links, i + 1, maxTransactions)
                  ELSE acceptLinksNoBreak(Append(records, tx[1]),
                                          seen \cup {dedupeKey(tx[1])}, old, dup,
                                          links, i + 1, maxTransactions)

\* for (const link of links) { ... }: the records and the seen set after the
\* links from position i on.  `old` is the seen set at the start of the loop
\* and dup says that some link was skipped whose key was in `old`.
RECURSIVE acceptLinks(_, _, _, _, _, _, _)
acceptLinks(records, seen, old, dup, links, i, maxTransactions) ==
    IF i > Len(links) THEN [records |-> records, seen |-> seen, dup |-> dup]
    ELSE LET tx == Extracted[links[i]]
         IN  IF tx = << >>
             THEN acceptLinks(records, seen, old, dup, links, i + 1, maxTransactions)
             ELSE IF seenHas(seen, dedupeKey(tx[1]))
                  THEN acceptLinks(records, seen, old, dup \/ dedupeKey(tx[1]) \in old,
                                   links, i + 1, maxTransactions)
                  ELSE IF Len(records) + 1 >= maxTransactions
                       THEN [records |-> Append(records, tx[1]),
                             seen |-> seen \cup {dedupeKey(tx[1])}, dup |-> dup]
                       ELSE acceptLinks(Append(records, tx[1]),
                                        seen \cup {dedupeKey(tx[1])}, old, dup,
                                        links, i + 1, maxTransactions)

\* the stall counter reset by every iteration, whether it accepted or not
stallUpdateAlwaysResets(f) ==
    [f EXCEPT !.stallCount = 0, !.lastCount = Len(f.records)]

\* the else branch without `lastCount = records.length`
stallUpdateKeepsLastCount(f) ==
    Only({IF Len(g.records) = g.lastCount
          THEN [g EXCEPT !.stallCount = @ + 1]
          ELSE [g EXCEPT !.stallCount = 0] :
            g \in {f}})

\* if (records.length === lastCount) stallCount += 1;
\* else { stallCount = 0; lastCount = records.length; }
stallUpdate(f) ==
    Only({IF Len(g.records) = g.lastCount
          THEN [g EXCEPT !.stallCount = @ + 1]
          ELSE [g EXCEPT !.stallCount = 0, !.lastCount = Len(g.records)] :
            g \in {f}})

\* records.slice(0, maxTransactions)
sliceRecords(records, maxTransactions) ==
    SubSeq(records, 1, IF Len(records) < maxTransactions THEN Len(records)
                       ELSE maxTransactions)

\* The click handler after `await collectTransactions(...)`, up to its next
\* suspension.  scroller and seen are locals of collectTransactions, which
\* has returned; the record of its queries ends with it.
afterCollect(w, r, maxTransactions, throws) ==
    Only({IF Len(v.f.rows) = 0
          THEN Sleep([v EXCEPT !.label = Label("No transactions found", 0, 0)],
                     r, EMPTY_MS, "emptySleep")
          ELSE enrichTransactionsWithProducts(
                   [v EXCEPT !.label = Label("Loading order items...", 0, 0)], r, throws) :
            v \in {[w EXCEPT !.f.rows = sliceRecords(w.f.records, maxTransactions),
                             !.f.scroller = 0, !.f.seen = {},
                             !.polls = NoPolls(w.polls.on)]}})

\* the for loop over the links of one query, with what the frame records
\* about the query
collectPass(f, links, maxTransactions) ==
    Only({[f EXCEPT !.records = acc.records, !.seen = acc.seen,
                    !.noNew = IF Len(acc.records) > Len(f.records) THEN 0 ELSE @ + 1,
                    !.dupSeen = acc.dup] :
            acc \in {acceptLinks(f.records, f.seen, f.seen, f.dupSeen, links, 1,
                                 maxTransactions)}})

\* One pass of `while (records.length < maxTransactions && stallCount <
\* STALL_LIMIT)` from its head to the next suspension.  `links` is what the
\* document renders at the query; docThrows says that the document
\* collaborator throws at the query.  The scroll command of lines 252-256
\* acts on the document, which answers it with what it renders at the next
\* query.
collectLoop(w, r, maxTransactions, links, docThrows, throws) ==
    Only({IF ~(Len(v.f.records) < maxTransactions /\ v.f.stallCount < STALL_LIMIT)
          THEN afterCollect(v, r, maxTransactions, throws)
          ELSE IF docThrows
               THEN Catch([v EXCEPT !.polls = NoPolls(v.polls.on)], r, "collect")
          ELSE Only({IF Len(f2.records) >= maxTransactions \/ f2.stallCount >= STALL_LIMIT
                     THEN afterCollect([v EXCEPT !.f = f2], r, maxTransactions, throws)
                     ELSE Sleep([v EXCEPT !.f = f2, !.polls = Polled(@, Len(links))],
                                r, WAIT_MS, "scrollWait") :
                       f2 \in {stallUpdate(collectPass(v.f, links, maxTransactions))}}) :
            v \in {w}})

\* collectTransactions(maxTransactions) up to the handler's next suspension;
\* `chain` is the ancestor chain of the seed link
collectTransactions(w, r, maxTransactions, chain, links, docThrows, throws) ==
    collectLoop([w EXCEPT !.f.records = << >>, !.f.seen = {},
                          !.f.scroller = getScrollableContainer(chain),
                          !.f.stallCount = 0, !.f.lastCount = 0],
                r, maxTransactions, links, docThrows, throws)

(***************************************************************************)
(* Events                                                                  *)
(***************************************************************************)
\* the guard of line 306 left out: every click starts a run
guardRejectsNever == FALSE

\* if (button.dataset.running === '1') return;
guardRejects == running

\* line 307 left out: the guard is never set
setRunningForgotten(w) == w

\* button.dataset.running = '1';
setRunning(w) == [w EXCEPT !.running = TRUE]

FreeSlots == {r \in Slots : run[r].pc = "none"}

\* the step of handler r whose outcome is the world `after`
Apply(r, after) ==
    \E w \in {after} :
        /\ run' = [run EXCEPT ![r] = w.f]
        /\ label' = w.label
        /\ running' = w.running
        /\ timers' = w.timers
        /\ net' = w.net
        /\ polls' = w.polls

Throws == {"none", "buildCsv", "downloadCsv"}

\* the outcomes of a step besides w, its outcome when neither buildCsv nor
\* downloadCsv throws: none when the step calls neither
Thrown(w) == IF w.f.pc = "doneSleep" THEN Throws \ {"none"} ELSE {}

\* the worlds a click on the idle button can end in
clickOutcomes(w0, r, chain, links, docThrows) ==
    UNION {{w} \cup {collectTransactions(w0, r, MAX_TRANSACTIONS, chain, links,
                                         docThrows, throws) : throws \in Thrown(w)} :
            w \in {collectTransactions(w0, r, MAX_TRANSACTIONS, chain, links,
                                       docThrows, "none")}}

\* the worlds a pass of the collection loop can end in
collectOutcomes(w0, r, links, docThrows) ==
    UNION {{w} \cup {collectLoop(w0, r, MAX_TRANSACTIONS, links, docThrows, throws) :
                        throws \in Thrown(w)} :
            w \in {collectLoop(w0, r, MAX_TRANSACTIONS, links, docThrows, "none")}}

\* the worlds the head of the enrichment loop can end in
enrichOutcomes(w0, r) ==
    UNION {{w} \cup {enrichLoop(w0, r, throws) : throws \in Thrown(w)} :
            w \in {enrichLoop(w0, r, "none")}}

\* the renderings a query can see, given whether the document throws
Seen(docThrows) == IF docThrows THEN {<< >>} ELSE Renderings

\* A click on the button while the guard is set.
ClickIgnored ==
    /\ guardRejects
    /\ lastEvent' = "click"
    /\ UNCHANGED <<running, label, run, net, timers, polls, rowsIn, csvOut, arg, result>>

\* A click on the button that starts a run.  The ancestor chain is the one of
\* the first link of the document, which the first query of the loop sees
\* too: the handler does not yield between the two.
ClickStart ==
    /\ ~guardRejects
    /\ FreeSlots # {}
    /\ \E chain \in Chains, docThrows \in BOOLEAN :
         \E links \in Seen(docThrows) :
            /\ docThrows \/ (chain = << >> <=> links = << >>)
            /\ LET r == MinOf(FreeSlots)
                   w0 == [setRunning(World(r)) EXCEPT
                            !.f = [IdleFrame EXCEPT !.originalText = label],
                            !.label = Label("Collecting...", 0, 0)]
               IN  \E after \in clickOutcomes(w0, r, chain, links, docThrows) :
                     Apply(r, after)
    /\ lastEvent' = "click"
    /\ UNCHANGED <<rowsIn, csvOut, arg, result>>

\* The timer of `await sleep(WAIT_MS)` fires: the next pass of the loop.
ScrollWaitDone ==
    \E r \in Slots :
        /\ run[r].pc = "scrollWait"
        /\ Timer(r, WAIT_MS) \in timers
        /\ \E docThrows \in BOOLEAN :
             \E links \in Seen(docThrows) :
               \E after \in collectOutcomes(
                                [World(r) EXCEPT !.timers = @ \ {Timer(r, WAIT_MS)}],
                                r, links, docThrows) :
                 Apply(r, after)
        /\ lastEvent' = "timer"
        /\ UNCHANGED <<rowsIn, csvOut, arg, result>>

\* fetch() settles: the promise rejects (network error), or resolves with a
\* response whose ok is false or true.
FetchSettles ==
    \E r \in Slots :
        /\ run[r].pc = "fetch"
        /\ \E outcome \in {"reject", "notOk", "ok"} :
           LET orderNumber == run[r].uniqueOrders[run[r].done + 1]
               req == Request(r, "fetch", orderNumber)
               w == [World(r) EXCEPT !.net = @ \ {req}]
           IN  /\ req \in net
               /\ Apply(r, CASE outcome = "reject" -> enrichCaught(w, r, orderNumber)
                             [] outcome = "notOk" -> enrichResolved(w, r, orderNumber, << >>)
                             [] outcome = "ok" ->
                                 [w EXCEPT !.net = @ \cup {Request(r, "text", orderNumber)},
                                           !.f.pc = "body"])
        /\ lastEvent' = "response"
        /\ UNCHANGED <<rowsIn, csvOut, arg, result>>

\* response.text() settles: the promise rejects, or resolves with the body,
\* which parseProductsFromOrderHtml parses (or its DOMParser throws).
BodySettles ==
    \E r \in Slots :
        /\ run[r].pc = "body"
        /\ \E outcome \in {"reject", "parseThrows", "ok"}, html \in Htmls :
           LET orderNumber == run[r].uniqueOrders[run[r].done + 1]
               req == Request(r, "text", orderNumber)
               w == [World(r) EXCEPT !.net = @ \ {req}]
           IN  /\ req \in net
               /\ Apply(r, IF outcome = "ok"
                           THEN enrichResolved(w, r, orderNumber,
                                               Parsed[html])
                           ELSE enrichCaught(w, r, orderNumber))
        /\ lastEvent' = "response"
        /\ UNCHANGED <<rowsIn, csvOut, arg, result>>

\* The timer of `await sleep(150)` fires: the next order key, or the end of
\* the enrichment and the serialization.
RateDelayDone ==
    \E r \in Slots :
        /\ run[r].pc = "rateSleep"
        /\ Timer(r, RATE_MS) \in timers
        /\ \E after \in enrichOutcomes([World(r) EXCEPT !.timers = @ \ {Timer(r, RATE_MS)}], r) :
              Apply(r, after)
        /\ lastEvent' = "timer"
        /\ UNCHANGED <<rowsIn, csvOut, arg, result>>

\* The timer of a display delay fires: the label is restored (in the empty
\* case by line 318 too) and the finally clause releases the guard.
DisplayDelayDone ==
    \E r \in Slots :
        /\ \/ run[r].pc = "emptySleep" /\ Timer(r, EMPTY_MS) \in timers
           \/ run[r].pc \in {"doneSleep", "failSleep"} /\ Timer(r, SHOWN_MS) \in timers
        /\ LET ms == IF run[r].pc = "emptySleep" THEN EMPTY_MS ELSE SHOWN_MS
               w == [World(r) EXCEPT !.timers = @ \ {Timer(r, ms)}]
           IN  Apply(r, Finally(IF run[r].pc = "emptySleep"
                                THEN [w EXCEPT !.label = w.f.originalText]
                                ELSE w))
        /\ lastEvent' = "timer"
        /\ UNCHANGED <<rowsIn, csvOut, arg, result>>

Init ==
    /\ running = FALSE
    /\ label = IdleLabel
    /\ run = [r \in Slots |-> IdleFrame]
    /\ net = {}
    /\ timers = {}
    /\ lastEvent = "load"
    /\ polls = NoPolls(FALSE)
    /\ rowsIn = << >>
    /\ csvOut = << >>
    /\ arg = << >>
    /\ result = << >>

\* Init, with the entry counts of the queries recorded
InitPolls ==
    /\ running = FALSE
    /\ label = IdleLabel
    /\ run = [r \in Slots |-> IdleFrame]
    /\ net = {}
    /\ timers = {}
    /\ lastEvent = "load"
    /\ polls = NoPolls(TRUE)
    /\ rowsIn = << >>
    /\ csvOut = << >>
    /\ arg = << >>
    /\ result = << >>

Next ==
    \/ ClickIgnored
    \/ ClickStart
    \/ ScrollWaitDone
    \/ FetchSettles
    \/ BodySettles
    \/ RateDelayDone
    \/ DisplayDelayDone

Spec == Init /\ [][Next]_vars

SpecPolls == InitPolls /\ [][Next]_vars

\* Every timer fires and every request settles, sooner or later.
LiveSpec ==
    /\ Spec
    /\ WF_vars(ScrollWaitDone)
    /\ WF_vars(FetchSettles)
    /\ WF_vars(BodySettles)
    /\ WF_vars(RateDelayDone)
    /\ WF_vars(DisplayDelayDone)

(***************************************************************************)
(* buildCsv alone, on enriched rows of any shape                           *)
(***************************************************************************)
Row(date, cardDetails, orderNumber, totalAmount, products) ==
    [date |-> date, cardDetails |-> cardDetails, orderNumber |-> orderNumber,
     totalAmount |-> totalAmount, products |-> products]

RowSamples ==
    { Row(<<"d">>, <<"c">>, << >>, <<"1">>, << >>),
      Row(<<"e">>, <<"V",",","4">>, <<"A">>, <<"-","2">>,
          << <<"W">>, <<"G","\"">>, <<"H">> >>),
      Row(<< >>, << >>, <<"B">>, << >>, << <<"W">> >>),
      Row(<<"d">>, <<"c">>, <<"C">>, <<"1">>, << <<"X">>, <<"Y","\n">> >>) }

\* how many rows buildCsv is given
MaxRows == 3

RowSeqs == UNION {[1..n -> RowSamples] : n \in 0..MaxRows}

InitCsv ==
    /\ running = FALSE
    /\ label = IdleLabel
    /\ run = [r \in Slots |-> IdleFrame]
    /\ net = {}
    /\ timers = {}
    /\ lastEvent = "load"
    /\ polls = NoPolls(FALSE)
    /\ rowsIn \in RowSeqs
    /\ csvOut = << >>
    /\ arg = << >>
    /\ result = << >>

\* buildCsv(rowsIn): the header array, the field array of each row, and the
\* text returned
BuildCsvCall ==
    /\ csvOut = << >>
    /\ csvOut' = <<[header |-> csvHeader(rowsIn),
                    rows |-> [i \in DOMAIN rowsIn |->
                                 csvRow(rowsIn[i], csvMaxProducts(rowsIn))],
                    text |-> buildCsv(rowsIn)]>>
    /\ UNCHANGED <<running, label, run, net, timers, lastEvent, polls, rowsIn, arg, result>>

NextCsv == BuildCsvCall

SpecCsv == InitCsv /\ [][NextCsv]_vars

(***************************************************************************)
(* The pure functions alone, each on every argument of a bounded set       *)
(***************************************************************************)
\* the page before any click, with the argument drawn from args
Alone(args) ==
    /\ running = FALSE
    /\ label = IdleLabel
    /\ run = [r \in Slots |-> IdleFrame]
    /\ net = {}
    /\ timers = {}
    /\ lastEvent = "load"
    /\ polls = NoPolls(FALSE)
    /\ rowsIn = << >>
    /\ csvOut = << >>
    /\ arg \in args
    /\ result = << >>

\* the function called on arg returns value
Returns(value) ==
    /\ result = << >>
    /\ result' = <<value>>
    /\ UNCHANGED <<running, label, run, net, timers, lastEvent, polls, rowsIn, csvOut, arg>>

\* the length of the field values csvEscape is given
MaxField == 3

\* field values: an ordinary character and the three that ask for quoting
FieldValues == UNION {[1..n -> {"a", ",", "\"", "\n"}] : n \in 0..MaxField}

InitEscape == Alone(FieldValues)

\* csvEscape(arg)
EscapeCall == Returns(csvEscape(arg))

NextEscape == EscapeCall

SpecEscape == InitEscape /\ [][NextEscape]_vars

\* how many spaces stand between the parts of a date text
MaxGap == 2

\* what stands between the parts of a date text: up to MaxGap spaces, a tab
\* or a newline
DateGaps == {[i \in 1..n |-> " "] : n \in 0..MaxGap} \cup {<<"\t">>, <<"\n">>}

DateDays == {<<"5">>, <<"0","5">>, <<"3","1">>, <<"0">>, <<"1","2","3">>}

DateMonths ==
    {<<"J","a","n">>, <<"S","e","p">>, <<"D","e","c">>, <<"j","a","n">>,
     <<"F","o","o">>, <<"S","e","p","t">>}

DateYears == {<<"2","0","2","4">>, <<"1","9","9","9">>, <<"2","4">>, <<"2","0","2","4","5">>}

\* date texts: a day, a month and a year with gaps between them and around
\* them, and texts of other shapes
DateTexts ==
    {pad[1] \o d \o g1 \o m \o g2 \o y \o pad[2] :
        pad \in {<< << >>, << >> >>, << <<" ">>, <<"\t"," ">> >>},
        d \in DateDays, g1 \in DateGaps, m \in DateMonths, g2 \in DateGaps, y \in DateYears}
    \cup {<< >>, <<"J","a","n"," ","5"," ","2","0","2","4">>,
          <<"5"," ","J","a","n">>, <<"5","-","J","a","n","-","2","0","2","4">>,
          <<"5"," ","J","a","n"," ","2","0","2","4"," ","x">>}

InitDate == Alone(DateTexts)

\* parseDateToISO(arg)
DateCall == Returns(parseDateToISO(arg))

NextDate == DateCall

SpecDate == InitDate /\ [][NextDate]_vars

\* how many spaces stand between the parts of an amount text
MaxSpaces == 1

AmountGaps == {[i \in 1..n |-> " "] : n \in 0..MaxSpaces}

\* the parts an amount text is made of: text before, sign, currency marker,
\* digit group, fraction and text after, with the gaps between them
AmountParts ==
    [before : {<< >>, <<"T","o","t","a","l"," ">>},
     sign : {<< >>, <<"+">>, <<"-">>},
     gap1 : AmountGaps,
     currency : {<< >>, <<"$">>, <<"pound">>, <<"U","S","D">>, <<"e","u","r">>, <<"x">>},
     gap2 : AmountGaps,
     digits : {<< >>, <<"5">>, <<"0">>, <<"1",",","2","3","4">>,
               <<"1","2",",","3","4",",","5">>, <<"1",",",",","2">>},
     fraction : {<< >>, <<".","5","6">>, <<".","5">>, <<".","5","6","7">>},
     after : {<< >>, <<" ","x">>}]

\* the text made of the parts
AmountText(p) ==
    p.before \o p.sign \o p.gap1 \o p.currency \o p.gap2 \o p.digits \o p.fraction
    \o p.after

InitAmount == Alone(AmountParts)

\* parseAmountValue of the text made of the parts arg
AmountCall == Returns(parseAmountValue(AmountText(arg)))

NextAmount == AmountCall

SpecAmount == InitAmount /\ [][NextAmount]_vars

(***************************************************************************)
(* Properties                                                              *)
(***************************************************************************)
Key4(rec) == <<rec.date, rec.cardDetails, rec.orderNumber, rec.totalAmount>>

NoTwoAlike(recs) ==
    \A i, j \in DOMAIN recs : i # j => Key4(recs[i]) # Key4(recs[j])

\* the collector's state, in the terms of the specification's state machine
CollectorState(f) ==
    IF f.pc = "none" THEN "None"
    ELSE IF f.pc = "scrollWait" THEN "Scanning"
    ELSE IF f.thrown = "collect" THEN "Threw"
    ELSE IF Len(f.records) >= MAX_TRANSACTIONS THEN "Complete"
    ELSE "Stalled"

\* C1: in every run, the records accepted so far and the records returned by
\* collectTransactions never hold two records with the same (date,
\* cardDetails, orderNumber, totalAmount), whatever the document rendered at
\* the queries.
C1_NoDuplicateRecords ==
    \A r \in Slots :
        /\ NoTwoAlike(run[r].records)
        /\ NoTwoAlike(run[r].rows)
        /\ NoTwoAlike(run[r].enrichedRows)

\* C1 witness: a run returned two or more records after a query had rendered
\* an entry whose key an earlier iteration had put in the seen set.
C1_Witness ==
    \E r \in Slots :
        /\ run[r].dupSeen
        /\ Len(run[r].rows) >= 2

\* C2 as stated: once the latest stallThreshold queries in a row each
\* returned no more entries than the query before, the collector has
\* terminated.
C2_AsStated ==
    polls.flat >= STALL_LIMIT => \A r \in Slots : run[r].pc # "scrollWait"

\* C2 amended: once the latest STALL_LIMIT iterations in a row each accepted
\* no new record, the collector has terminated, with fewer than
\* maxTransactions records (Stalled); while it scans it holds fewer than
\* maxTransactions records and its stall counter, which is the number of the
\* latest iterations in a row that accepted nothing, is below STALL_LIMIT;
\* and every iteration, whatever the document renders, accepts a record or
\* adds one to that number or throws, so that the loop runs at most
\* maxTransactions * STALL_LIMIT iterations.
C2_StallTerminates ==
    /\ [](\A r \in Slots :
            /\ run[r].noNew >= STALL_LIMIT =>
                  /\ CollectorState(run[r]) = "Stalled"
                  /\ run[r].noNew = STALL_LIMIT
            /\ run[r].pc = "scrollWait" =>
                  /\ Len(run[r].records) < MAX_TRANSACTIONS
                  /\ run[r].stallCount = run[r].noNew
                  /\ run[r].stallCount < STALL_LIMIT)
    /\ [][\A r \in Slots :
            (run[r].pc = "scrollWait" /\ run'[r] # run[r]) =>
                \/ Len(run'[r].records) > Len(run[r].records)
                \/ run'[r].records = run[r].records /\ run'[r].noNew = run[r].noNew + 1
                \/ run'[r].thrown = "collect"]_vars

\* C2 witness: a run whose collector stalled after it had accepted a record:
\* its latest STALL_LIMIT iterations accepted nothing.
C2_Witness ==
    \E r \in Slots :
        /\ CollectorState(run[r]) = "Stalled"
        /\ run[r].noNew = STALL_LIMIT
        /\ Len(run[r].rows) >= 1
        /\ polls.on

OrdersOf(recs) == {recs[i].orderNumber : i \in DOMAIN recs} \ {<< >>}

\* C3: in one run no order number has a detail fetch issued twice, none is
\* issued for the empty order number, and once the enrichment has returned
\* the order numbers fetched are exactly the distinct non-empty order numbers
\* of the records, and two records with the same non-empty order number have
\* the same products.
C3_FetchOncePerOrder ==
    \A r \in Slots :
        LET f == run[r]
        IN  /\ \A i, j \in DOMAIN f.issued : i # j => f.issued[i] # f.issued[j]
            /\ \A i \in DOMAIN f.issued : f.issued[i] \in OrdersOf(f.rows)
            /\ f.enrichedRows # << >> =>
                  /\ Range(f.issued) = OrdersOf(f.rows)
                  /\ Len(f.issued) = Cardinality(OrdersOf(f.rows))
                  /\ \A i, j \in DOMAIN f.enrichedRows :
                        /\ f.enrichedRows[i].orderNumber = f.enrichedRows[j].orderNumber
                        /\ f.enrichedRows[i].orderNumber # << >>
                        => f.enrichedRows[i].products = f.enrichedRows[j].products

\* C3 witness: the enrichment returned two records that share an order
\* number, with products, and a record of another order.
C3_Witness ==
    \E r \in Slots :
        \E i, j, k \in DOMAIN run[r].enrichedRows :
            /\ i # j
            /\ run[r].enrichedRows[i].orderNumber = run[r].enrichedRows[j].orderNumber
            /\ run[r].enrichedRows[i].orderNumber # << >>
            /\ run[r].enrichedRows[i].products # << >>
            /\ run[r].enrichedRows[k].orderNumber # run[r].enrichedRows[i].orderNumber
            /\ run[r].enrichedRows[k].orderNumber # << >>

Active == {r \in Slots : run[r].pc # "none"}

\* C4: at most one run is active at any time, and a click that arrives while
\* the guard is set leaves the frames, the label, the guard, the requests and
\* the timers as they are.
C4_SingleRun ==
    /\ [](Cardinality(Active) <= 1 /\ (Active # {} => running))
    /\ [][(lastEvent' = "click" /\ running)
            => UNCHANGED <<run, label, running, net, timers>>]_vars

\* C4 witness: a click was dispatched while a run was waiting for the delay
\* that follows a fetch.
C4_Witness ==
    \E r \in Slots :
        /\ lastEvent = "click"
        /\ running
        /\ run[r].pc = "rateSleep"
        /\ Len(run[r].records) >= 1

ScrollWaits == {t \in timers : t.ms = WAIT_MS}

\* C5: at most one request (a fetch or the read of its body) is outstanding,
\* at most one scroll-wait is outstanding, and never both.
C5_OneSuspension ==
    /\ Cardinality(net) <= 1
    /\ Cardinality(ScrollWaits) <= 1
    /\ ~(net # {} /\ ScrollWaits # {})

\* C5 witness: a click was dispatched while the read of a body was
\* outstanding, after an earlier fetch of the run had failed.
C5_Witness ==
    /\ lastEvent = "click"
    /\ \E q \in net : q.kind = "text" /\ run[q.slot].failed # {}

C7_DeliveryOnlyOnSuccess ==
    \A r \in Slots :
        LET f == run[r]
        IN  /\ Len(f.delivered) <= 1
            /\ Len(f.delivered) = 1 =>
                  /\ f.pc = "doneSleep"
                  /\ Len(f.rows) >= 1
                  /\ f.thrown = "none"
                  /\ Len(f.enrichedRows) = Len(f.rows)
                  /\ DOMAIN f.cache = OrdersOf(f.rows)
                  /\ f.delivered[1].rowCount = Len(f.rows)
                  /\ f.delivered[1].text = buildCsv(f.enrichedRows)
            /\ f.pc \in {"emptySleep", "failSleep"} => f.delivered = << >>
            /\ (f.pc # "none" /\ f.pc # "scrollWait" /\ Len(f.rows) = 0) =>
                  f.pc \in {"emptySleep", "failSleep"}

\* C7 witness: downloadCsv threw after the enrichment of two rows, and
\* nothing was delivered.
C7_Witness ==
    \E r \in Slots :
        /\ run[r].pc = "failSleep"
        /\ run[r].thrown = "downloadCsv"
        /\ Len(run[r].enrichedRows) = 2
        /\ run[r].delivered = << >>

\* C8: when every timer fires and every request settles, a started run leads
\* to a state with the idle label and the guard released; whenever the guard
\* is released the label is the idle one and no handler is suspended; and a
\* click that arrives then starts a run.
C8_RunEndsIdle ==
    /\ running ~> (~running /\ label = IdleLabel)
    /\ [](~running => label = IdleLabel /\ Active = {} /\ timers = {} /\ net = {})
    /\ [][(lastEvent' = "click" /\ ~running)
            => (running' /\ Active' # {} /\ label' # IdleLabel)]_vars

\* C8 witness: a run has ended (the last event was its display timer) and the
\* button is idle again.
C8_Witness ==
    /\ lastEvent = "timer"
    /\ ~running
    /\ label = IdleLabel

\* the greatest products length over the rows, 0 if there is no row
WidestProducts(rows) ==
    CHOOSE m \in 0..50 :
        /\ \A i \in DOMAIN rows : Len(rows[i].products) <= m
        /\ m = 0 \/ \E i \in DOMAIN rows : Len(rows[i].products) = m

\* C9: the header of buildCsv has 4 + maxProducts fields, the four scalar
\* names and then product_1 .. product_maxProducts; every row has 4 +
\* maxProducts fields: date, cardDetails, orderNumber, totalAmount, its
\* products in order, then empty strings; and the text has one line more than
\* there are rows when no field holds a newline.
C9_CsvWidth ==
    csvOut # << >> =>
        LET out == csvOut[1]
            n == WidestProducts(rowsIn)
        IN  /\ Len(out.header) = 4 + n
            /\ SubSeq(out.header, 1, 4) =
                  << <<"d","a","t","e">>,
                     <<"c","a","r","d","_","d","e","t","a","i","l","s">>,
                     <<"o","r","d","e","r","_","n","u","m","b","e","r">>,
                     <<"t","o","t","a","l","_","a","m","o","u","n","t">> >>
            /\ \A k \in 1..n :
                  out.header[4 + k] = <<"p","r","o","d","u","c","t","_">> \o NatToStr(k)
            /\ Len(out.rows) = Len(rowsIn)
            /\ \A i \in DOMAIN rowsIn :
                  /\ Len(out.rows[i]) = 4 + n
                  /\ SubSeq(out.rows[i], 1, 4) = Key4(rowsIn[i])
                  /\ \A k \in 1..n :
                        out.rows[i][4 + k] =
                            IF k <= Len(rowsIn[i].products) THEN rowsIn[i].products[k]
                            ELSE << >>

\* C9 witness: buildCsv was given rows with 0, 3 and 1 products.
C9_Witness ==
    /\ csvOut # << >>
    /\ Len(rowsIn) = 3
    /\ Len(rowsIn[1].products) = 0
    /\ Len(rowsIn[2].products) = 3
    /\ Len(rowsIn[3].products) = 1

\* C10: a request that settles without another request following it at once
\* leaves the handler waiting for the 150 ms timer, whether the fetch failed
\* or not; and a fetch other than the first of a run is issued only by the
\* step in which that timer fires.
C10_DelayAfterEachFetch ==
    [][\A r \in Slots :
          /\ (run[r].pc \in {"fetch", "body"} /\ run'[r].pc \notin {"fetch", "body"})
                => (run'[r].pc = "rateSleep" /\ Timer(r, RATE_MS) \in timers')
          /\ (run[r].pc = "fetch" /\ run'[r].pc = "body") => run'[r].issued = run[r].issued
          /\ (Len(run'[r].issued) > Len(run[r].issued) /\ Len(run[r].issued) > 0)
                => /\ run[r].pc = "rateSleep"
                   /\ Timer(r, RATE_MS) \in timers
                   /\ Timer(r, RATE_MS) \notin timers'
                   /\ lastEvent' = "timer"]_vars

\* C10 witness: the fetch of the first order number failed and the fetch of
\* the second one is outstanding.
C10_Witness ==
    \E r \in Slots :
        /\ run[r].pc = "fetch"
        /\ Len(run[r].issued) = 2
        /\ run[r].issued[1] \in run[r].failed

\* the stage a handler is in: 0 idle, 1 Collector, 2 Enricher, 3 after the
\* Serializer and the delivery (or the empty result, or the failure)
Stage(f) ==
    IF f.pc = "none" THEN 0
    ELSE IF f.pc = "scrollWait" THEN 1
    ELSE IF f.pc \in {"fetch", "body", "rateSleep"} THEN 2
    ELSE 3

\* C11: a run goes through Collector, Enricher, Serializer and delivery in
\* that order.  While the collection loop runs no fetch has been issued,
\* nothing is cached and nothing delivered; once a fetch has been issued the
\* collection has returned its rows, no scroll-wait is pending, and no later
\* step of the run goes back to the loop or changes the records; the file
\* delivered is the serialization of the enriched rows, made when every
\* distinct order number had been fetched and cached; and the stage of a run
\* never goes back before the run ends.
C11_StageOrder ==
    /\ [](\A r \in Slots :
            LET f == run[r]
            IN  /\ f.pc = "scrollWait" =>
                      /\ f.issued = << >>
                      /\ f.cache = << >>
                      /\ f.enrichedRows = << >>
                      /\ f.delivered = << >>
                      /\ \A q \in net : q.slot # r
                /\ (f.issued # << >> \/ \E q \in net : q.slot = r) =>
                      /\ Stage(f) >= 2
                      /\ Len(f.rows) >= 1
                      /\ f.rows = sliceRecords(f.records, MAX_TRANSACTIONS)
                      /\ Timer(r, WAIT_MS) \notin timers
                /\ f.delivered # << >> =>
                      /\ f.issued = f.uniqueOrders
                      /\ Range(f.issued) = OrdersOf(f.rows)
                      /\ DOMAIN f.cache = OrdersOf(f.rows)
                      /\ f.done = Len(f.uniqueOrders)
                      /\ f.delivered[1].text = buildCsv(f.enrichedRows))
    /\ [][\A r \in Slots :
            /\ Stage(run'[r]) >= Stage(run[r]) \/ run'[r] = IdleFrame
            /\ run[r].issued # << >> =>
                  /\ run'[r].pc # "scrollWait"
                  /\ run'[r].records = run[r].records \/ run'[r] = IdleFrame
                  /\ Timer(r, WAIT_MS) \notin timers']_vars

\* C11 witness: a run that collected three records in more than one pass,
\* fetched two order numbers with no failure and delivered the file.
C11_Witness ==
    \E r \in Slots :
        /\ run[r].pc = "doneSleep"
        /\ run[r].dupSeen
        /\ Len(run[r].rows) = 3
        /\ Len(run[r].issued) = 2
        /\ run[r].failed = {}
        /\ Len(run[r].delivered) = 1

\* a comma, a double quote or a newline occurs in v
NeedsQuotes(v) == \E i \in DOMAIN v : v[i] \in {",", "\"", "\n"}

\* how many double quotes v has before position i
QuotesBefore(v, i) == Cardinality({j \in 1..(i - 1) : v[j] = "\""})

\* res is v between double quotes, with each double quote of v twice
Wrapped(v, res) ==
    /\ Len(res) = Len(v) + QuotesBefore(v, Len(v) + 1) + 2
    /\ res[1] = "\""
    /\ res[Len(res)] = "\""
    /\ \A i \in DOMAIN v :
          LET p == 1 + i + QuotesBefore(v, i)
          IN  /\ res[p] = v[i]
              /\ v[i] = "\"" => res[p + 1] = "\""

\* C12: csvEscape returns the value between double quotes, with every double
\* quote of the value doubled, if and only if the value holds a comma, a
\* double quote or a newline; it returns every other value as it is.
C12_EscapeIff ==
    result # << >> =>
        /\ NeedsQuotes(arg) => Wrapped(arg, result[1])
        /\ ~NeedsQuotes(arg) => result[1] = arg
        /\ NeedsQuotes(arg) <=> result[1] # arg

\* C12 witness: csvEscape was called on a value whose only special character
\* is a newline.
C12_Witness ==
    /\ result # << >>
    /\ arg = <<"a", "\n", "a">>

\* A reader of comma-separated text after RFC 4180: the records of text t
\* from position i on.  mode is "start" at the start of a field, "plain" in
\* an unquoted field, "quoted" in a quoted one and "closed" after the double
\* quote that may close it.  ok is FALSE for text the grammar does not allow.
RECURSIVE csvReadFrom(_, _, _, _, _, _)
csvReadFrom(t, i, mode, field, record, records) ==
    IF i > Len(t)
    THEN [ok |-> mode # "quoted", records |-> Append(records, Append(record, field))]
    ELSE LET c == t[i]
         IN  IF mode = "quoted"
             THEN IF c = "\"" THEN csvReadFrom(t, i + 1, "closed", field, record, records)
                  ELSE csvReadFrom(t, i + 1, "quoted", Append(field, c), record, records)
             ELSE IF c = "\""
                  THEN IF mode = "start"
                       THEN csvReadFrom(t, i + 1, "quoted", field, record, records)
                       ELSE IF mode = "closed"
                            THEN csvReadFrom(t, i + 1, "quoted", Append(field, c),
                                             record, records)
                            ELSE [ok |-> FALSE, records |-> records]
             ELSE IF c = ","
                  THEN csvReadFrom(t, i + 1, "start", << >>, Append(record, field), records)
             ELSE IF c = "\n"
                  THEN csvReadFrom(t, i + 1, "start", << >>, << >>,
                                   Append(records, Append(record, field)))
             ELSE IF mode = "closed" THEN [ok |-> FALSE, records |-> records]
             ELSE csvReadFrom(t, i + 1, "plain", Append(field, c), record, records)

csvRead(t) == csvReadFrom(t, 1, "start", << >>, << >>, << >>)

\* C13: two lines, each made as buildCsv makes a line, of the fields arg,
\* "a", arg: the fields escaped by csvEscape and joined with commas, the
\* lines joined with a newline.  The reader finds two records whose fields
\* are arg, "a", arg again, for every arg, with or without a comma, a double
\* quote or a newline.
C13_EscapeRoundTrip ==
    result # << >> =>
        LET line == Join(<<result[1], csvEscape(<<"a">>), result[1]>>, <<",">>)
            text == Join(<<line, line>>, <<"\n">>)
        IN  csvRead(text) = [ok |-> TRUE,
                             records |-> << <<arg, <<"a">>, arg>>, <<arg, <<"a">>, arg>> >>]

\* C13 witness: csvEscape was called on a value that holds a double quote, a
\* comma and a newline.
C13_Witness ==
    /\ result # << >>
    /\ arg = <<"\"", ",", "\n">>

\* the words of s from position i on: its maximal runs of characters that
\* are no whitespace (cur is the word being read)
RECURSIVE WordsFrom(_, _, _)
WordsFrom(s, i, cur) ==
    IF i > Len(s) THEN (IF cur = << >> THEN << >> ELSE <<cur>>)
    ELSE IF IsSpace(s[i])
         THEN (IF cur = << >> THEN << >> ELSE <<cur>>) \o WordsFrom(s, i + 1, << >>)
         ELSE WordsFrom(s, i + 1, Append(cur, s[i]))

Words(s) == WordsFrom(s, 1, << >>)

\* ws are a day of one or two digits, a month of three letters and a year of
\* four digits
DayMonthYear(ws) ==
    /\ Len(ws) = 3
    /\ Len(ws[1]) \in 1..2 /\ \A k \in DOMAIN ws[1] : IsDigit(ws[1][k])
    /\ Len(ws[2]) = 3 /\ \A k \in DOMAIN ws[2] : IsLetter(ws[2][k])
    /\ Len(ws[3]) = 4 /\ \A k \in DOMAIN ws[3] : IsDigit(ws[3][k])

\* the months of the table, written as the table writes them
KnownMonth(m) ==
    m \in {<<"J","a","n">>, <<"F","e","b">>, <<"M","a","r">>, <<"A","p","r">>,
           <<"M","a","y">>, <<"J","u","n">>, <<"J","u","l">>, <<"A","u","g">>,
           <<"S","e","p">>, <<"O","c","t">>, <<"N","o","v">>, <<"D","e","c">>}

\* YYYY-MM-DD for the words ws, the day padded to two digits
IsoOf(ws) ==
    ws[3] \o <<"-">> \o MONTHS[ws[2]] \o <<"-">>
    \o (IF Len(ws[1]) = 1 THEN <<"0">> \o ws[1] ELSE ws[1])

\* s is day, one space, month, one space, year, and nothing else
OneSpaceShape(s) ==
    /\ DayMonthYear(Words(s))
    /\ Len(s) = Len(Words(s)[1]) + 9
    /\ \A k \in DOMAIN s : IsSpace(s[k]) => s[k] = " "

\* C14 as stated: a text of the shape "day month year" with single spaces
\* and a month of the table gives YYYY-MM-DD, and every other text gives the
\* empty string.
C14_AsStated ==
    result # << >> =>
        IF OneSpaceShape(arg) /\ KnownMonth(Words(arg)[2])
        THEN result[1] = IsoOf(Words(arg))
        ELSE result[1] = << >>

\* C14 amended: a text that is a day of one or two digits, a month of three
\* letters and a year of four digits, separated by whitespace of any length
\* and with any whitespace around them, gives YYYY-MM-DD with the day padded
\* to two digits when the month is one of Jan .. Dec written exactly so;
\* every other text gives the empty string.
C14_DateToISO ==
    result # << >> =>
        IF DayMonthYear(Words(arg)) /\ KnownMonth(Words(arg)[2])
        THEN result[1] = IsoOf(Words(arg))
        ELSE result[1] = << >>

\* C14 witness: parseDateToISO was called on " 5  Sep\t2024 ", and on it
\* returned 2024-09-05.
C14_Witness ==
    /\ result = << <<"2","0","2","4","-","0","9","-","0","5">> >>
    /\ Len(arg) > 10
    /\ arg[1] = " "

\* the parts p make a text of the shape [sign] [currency]? digits[,digits]*[.dd]
AmountShape(p) ==
    /\ p.before = << >>
    /\ p.after = << >>
    /\ p.currency # <<"x">>
    /\ p.digits # << >>
    /\ \A k \in DOMAIN p.digits :
          p.digits[k] = "," => /\ k > 1 /\ k < Len(p.digits)
                               /\ p.digits[k - 1] # "," /\ p.digits[k + 1] # ","
    /\ p.fraction \in {<< >>, <<".","5","6">>}

\* the characters of s that are no comma, in their order
RECURSIVE NoCommas(_)
NoCommas(s) ==
    IF s = << >> THEN << >>
    ELSE (IF Head(s) = "," THEN << >> ELSE <<Head(s)>>) \o NoCommas(Tail(s))

\* res is an optional sign, one digit or more, and an optional fraction of a
\* point and two digits
SignedDecimal(res) ==
    \E s \in 0..1, n \in 1..Len(res), f \in {0, 3} :
        /\ Len(res) = s + n + f
        /\ s = 1 => res[1] \in {"+", "-"}
        /\ \A k \in (s + 1)..(s + n) : IsDigit(res[k])
        /\ f = 3 => /\ res[s + n + 1] = "."
                    /\ IsDigit(res[s + n + 2])
                    /\ IsDigit(res[s + n + 3])

\* C15: for a text of the shape [sign] [currency]? digits[,digits]*[.dd]
\* parseAmountValue returns the sign, if any, then the digits without the
\* commas, then the fraction, if any; for every text it returns the empty
\* string or an optional sign, digits and an optional two-digit fraction; and
\* it returns the empty string exactly for the texts with no digit, which
\* are the texts its pattern does not match.
C15_AmountValue ==
    result # << >> =>
        /\ AmountShape(arg) =>
              result[1] = arg.sign \o NoCommas(arg.digits) \o arg.fraction
        /\ result[1] = << >> \/ SignedDecimal(result[1])
        /\ result[1] = << >> <=>
              ~\E k \in DOMAIN AmountText(arg) : IsDigit(AmountText(arg)[k])

\* C15 witness: parseAmountValue was called on "- USD 12,34,5.56".
C15_Witness ==
    /\ result # << >>
    /\ arg.before = << >> /\ arg.after = << >>
    /\ arg.sign = <<"-">>
    /\ arg.gap1 = <<" ">> /\ arg.gap2 = <<" ">>
    /\ arg.currency = <<"U","S","D">>
    /\ arg.digits = <<"1","2",",","3","4",",","5">>
    /\ arg.fraction = <<".","5","6">>


\* handler r's collectTransactions ran one iteration of its loop in the step:
\* the first one, in the click, or the one after a scroll wait
Iterated(r) ==
    /\ run[r].pc \in {"none", "scrollWait"}
    /\ run'[r].pc # "none"
    /\ run'[r] # run[r]
    /\ run'[r].thrown # "collect"

\* the number of records the collector held before the step
HeldBefore(r) == IF run[r].pc = "none" THEN 0 ELSE Len(run[r].records)

\* the stall counter before the step
StallBefore(r) == IF run[r].pc = "none" THEN 0 ELSE run[r].stallCount

\* C16: every iteration of the collector's loop that accepted a record sets
\* the stall counter to zero and every iteration that accepted none adds one
\* to it; the counter never exceeds STALL_LIMIT; and a collector that has
\* returned with fewer than maxTransactions records has its counter at
\* STALL_LIMIT, its latest STALL_LIMIT iterations having accepted nothing.
C16_StallCounter ==
    /\ [](\A r \in Slots :
            /\ run[r].stallCount <= STALL_LIMIT
            /\ run[r].stallCount <= run[r].noNew
            /\ CollectorState(run[r]) = "Stalled" =>
                  /\ run[r].stallCount = STALL_LIMIT
                  /\ run[r].noNew = STALL_LIMIT
            /\ CollectorState(run[r]) = "Complete" => run[r].stallCount = 0)
    /\ [][\A r \in Slots :
            Iterated(r) =>
                /\ Len(run'[r].records) >= HeldBefore(r)
                /\ Len(run'[r].records) > HeldBefore(r) => run'[r].stallCount = 0
                /\ Len(run'[r].records) = HeldBefore(r) =>
                      run'[r].stallCount = StallBefore(r) + 1]_vars

\* C16 witness: a collector that had accepted two records in two iterations
\* returned them after STALL_LIMIT iterations in a row that accepted nothing.
C16_Witness ==
    \E r \in Slots :
        /\ CollectorState(run[r]) = "Stalled"
        /\ run[r].stallCount = STALL_LIMIT
        /\ Len(run[r].records) = 2
        /\ run[r].lastCount = 2
        /\ run[r].dupSeen


\* s is the beginning of t
IsPrefix(s, t) == Len(s) <= Len(t) /\ SubSeq(t, 1, Len(s)) = s

\* C17: the records a collector has accepted are at most maxTransactions at
\* every point; every step of a run leaves the records accepted before it
\* where they were and adds new ones only after them; and the sequence the
\* collector returns is the accepted sequence itself, the final slice
\* removing nothing.
C17_AppendOnly ==
    /\ [](\A r \in Slots :
            /\ Len(run[r].records) <= MAX_TRANSACTIONS
            /\ Len(run[r].rows) <= MAX_TRANSACTIONS
            /\ CollectorState(run[r]) \in {"Complete", "Stalled"} =>
                  run[r].rows = run[r].records)
    /\ [][\A r \in Slots :
            run'[r].pc # "none" =>
                IsPrefix(IF run[r].pc = "none" THEN << >> ELSE run[r].records,
                         run'[r].records)]_vars

\* C17 witness: a collector returned maxTransactions records that it had
\* accepted in more than one iteration, the last of which accepted a record
\* and a later one of which met an entry seen in an earlier one.
C17_Witness ==
    \E r \in Slots :
        /\ CollectorState(run[r]) = "Complete"
        /\ Len(run[r].rows) = MAX_TRANSACTIONS
        /\ run[r].lastCount = MAX_TRANSACTIONS
        /\ run[r].noNew = 0
        /\ run[r].dupSeen


\* the four scalar fields of rec are all empty
AllEmpty(rec) == Key4(rec) = << << >>, << >>, << >>, << >> >>

\* C18: extractTransaction returns, for every link the document can render,
\* no record or a record with one of date, cardDetails, orderNumber and
\* totalAmount not empty, and no record for the entry that holds none of
\* them; and no record with the four fields empty is among the records a
\* collector has accepted or returned, nor among the rows handed to buildCsv.
C18_NoEmptyRecord ==
    /\ \A l \in Links :
          Extracted[l] = << >> \/ ~AllEmpty(Extracted[l][1])
    /\ Extracted[LinkAd] = << >>
    /\ \A r \in Slots :
          /\ \A i \in DOMAIN run[r].records : ~AllEmpty(run[r].records[i])
          /\ \A i \in DOMAIN run[r].rows : ~AllEmpty(run[r].rows[i])
          /\ \A i \in DOMAIN run[r].enrichedRows : ~AllEmpty(run[r].enrichedRows[i])

\* C18 witness: the first query of a run rendered two entries, of which the
\* collector accepted the one of order B2 only; no other entry has that
\* record's key, so the other entry is the one with no field, for which
\* extractTransaction returned no record.
C18_Witness ==
    \E r \in Slots :
        /\ run[r].pc = "scrollWait"
        /\ polls.on
        /\ polls.prev = 2
        /\ run[r].noNew = 0
        /\ run[r].lastCount = 1
        /\ run[r].records = Extracted[LinkB2]
        /\ \A l \in Links \ {LinkB2, LinkAd} :
              Extracted[l] # << >> /\ Key4(Extracted[l][1]) # Key4(Extracted[LinkB2][1])


\* the positions of the records of recs that have no order number
Unordered(recs) == {i \in DOMAIN recs : recs[i].orderNumber = << >>}

\* C19: no detail fetch is ever issued, in flight or cached for the empty
\* order number; at every point of a run the fetches issued are no more than
\* the distinct non-empty order numbers of the collected records; and once
\* the enrichment has returned, every collected record with no order number
\* stands at its place in the result with no products, and the fetches
\* issued in the run are as many as the distinct non-empty order numbers of
\* the collected records, whether they succeeded or not.
C19_EmptyOrderNotFetched ==
    /\ \A q \in net : q.order # << >>
    /\ \A r \in Slots :
          LET f == run[r]
              orders == {f.rows[i].orderNumber : i \in DOMAIN f.rows \ Unordered(f.rows)}
          IN  /\ << >> \notin Range(f.issued) \cup Range(f.uniqueOrders) \cup DOMAIN f.cache
              /\ Len(f.issued) <= Cardinality(orders)
              /\ f.enrichedRows # << >> =>
                    /\ Unordered(f.enrichedRows) = Unordered(f.rows)
                    /\ \A i \in Unordered(f.rows) :
                          /\ Key4(f.enrichedRows[i]) = Key4(f.rows[i])
                          /\ f.enrichedRows[i].products = << >>
                    /\ Len(f.issued) = Cardinality(orders)
                    /\ f.failed \subseteq orders

\* C19 witness: a run delivered three records, one of them with no order
\* number and two of one order, after one detail fetch.
C19_Witness ==
    \E r \in Slots :
        /\ Len(run[r].enrichedRows) = 3
        /\ Cardinality(Unordered(run[r].enrichedRows)) = 1
        /\ Len(run[r].issued) = 1
        /\ run[r].delivered # << >>


\* handler r is inside enrichTransactionsWithProducts
Enriching(f) == f.pc \in {"fetch", "body", "rateSleep"}

\* C20: the sequence enrichTransactionsWithProducts returns has as many
\* records as the rows it was given, and the record at each place has the
\* date, cardDetails, orderNumber and totalAmount of the row at that place,
\* whether the fetches succeeded, failed or found nothing; the rows
\* themselves are the same from the first fetch to the end of the run, and
\* still carry no products.
C20_EnrichKeepsRecords ==
    /\ [](\A r \in Slots :
            LET f == run[r]
            IN  /\ f.enrichedRows # << >> =>
                      /\ Len(f.enrichedRows) = Len(f.rows)
                      /\ \A i \in DOMAIN f.rows :
                            /\ Key4(f.enrichedRows[i]) = Key4(f.rows[i])
                            /\ [f.enrichedRows[i] EXCEPT !.products = << >>] = f.rows[i]
                /\ (Enriching(f) \/ f.enrichedRows # << >>) =>
                      /\ f.rows # << >>
                      /\ \A i \in DOMAIN f.rows : f.rows[i].products = << >>
                /\ Enriching(f) => f.enrichedRows = << >>)
    /\ [][\A r \in Slots :
            (Enriching(run[r]) /\ run'[r].pc # "none") => run'[r].rows = run[r].rows]_vars

\* C20 witness: the enrichment returned three records for two orders, one
\* fetch having failed and the other having found products.
C20_Witness ==
    \E r \in Slots :
        /\ Len(run[r].enrichedRows) = 3
        /\ Len(run[r].issued) = 2
        /\ run[r].failed # {}
        /\ \E i \in DOMAIN run[r].enrichedRows :
              run[r].enrichedRows[i].products # run[r].rows[i].products

====
